---- MODULE Spec2Model ----
(***************************************************************************)
(* A model of navicore/fsm-px: the signature detector                      *)
(* (src/src/signature_detector.rs), the dissemination / correlation        *)
(* pipeline of src/src/main.rs, and the explicit-ID latency estimators     *)
(* (src/src/bpftrace_reader.rs, src/src/ebpf_processor.rs).                *)
(*                                                                         *)
(* The specifications share the variables:                                 *)
(*   Spec          main, the detector tasks (run_measurement), the         *)
(*                 broadcast channel and run_signature_matcher with its    *)
(*                 drain task over the DashMap active_signatures           *)
(*                 (SpecTimed: with the clock; SpecFair: with the drain    *)
(*                 task scheduled);                                        *)
(*   SpecMatching  the matcher's row loop over a store the drain task has  *)
(*                 filled, with the clock;                                 *)
(*   SpecDetector  one SignatureDetector fed a packet stream;              *)
(*   SpecBpftrace  a BpftraceReader monitoring a trace file that grows;    *)
(*   SpecEbpf      an EbpfProcessor given trace files.                     *)
(* Each part leaves the variables of the others unchanged.                 *)
(***************************************************************************)
EXTENDS Integers, Sequences, FiniteSets, TLC

VARIABLES
    \* ---- main.rs ----
    mainPc,             \* main: "spawn" (lines 21-26), "subscribe" (29), "serving" (32)
    spawned,            \* detector tasks main has spawned
    nextId,             \* number of events detectors have produced so far
    sig_rx,             \* the receiver: "none", "live" or "dropped"
    chan,               \* events sent and not yet received by sig_rx, oldest first
    lagged,             \* sig_rx missed events that the ring buffer overwrote
    matcherPc,          \* run_signature_matcher: "unspawned", "start", "rows", "done"
    drainPc,            \* the drain task: "unspawned", "recv", "done"
    active_signatures,  \* the DashMap, as a set of <<key, event>> entries
    observed,           \* LATENCY_HISTOGRAM observations, in order
    now,                \* the clock
    \* ---- history: the operations on active_signatures, in the order they
    \* took effect, and what was sent after the receiver fell behind
    hist,
    lateIds,            \* ids of the events sent once the receiver had fallen behind
    \* ---- signature_detector.rs ----
    config,             \* the detector's MeasurementConfig
    stream,             \* the payloads the packet source yields, cyclically
    packet_counter,
    audio_buffer,
    result,             \* what the last process_packet call returned: <<>> or <<event>>
    \* ---- bpftrace_reader.rs, ebpf_processor.rs ----
    overflow_checks,    \* the build: TRUE when arithmetic overflow panics (debug)
    panicked,           \* the thread running the estimator has panicked
    trace_file,         \* the lines of the file at BpftraceReader.trace_file
    notifications,      \* watcher events waiting in rx (bpftrace_reader.rs:34)
    readerPc,           \* start_monitoring: "new", then "monitoring"
    interval_first_seen,        \* BpftraceReader.interval_first_seen
    interval_latencies,         \* BpftraceReader.interval_latencies
    ebpf_interval_first_seen,   \* EbpfProcessor.interval_first_seen
    latency_measurements,       \* EbpfProcessor.latency_measurements
    \* ---- history: the length of the file at each read_trace_file call, and
    \* the number of process_trace_file calls
    reads,
    files_processed

pipeVars == <<mainPc, spawned, nextId, sig_rx, chan, lagged, matcherPc, drainPc,
              active_signatures, observed, now, hist, lateIds>>
detVars == <<config, stream, packet_counter, audio_buffer, result>>
traceVars == <<overflow_checks, panicked, trace_file, notifications, readerPc,
               interval_first_seen, interval_latencies,
               ebpf_interval_first_seen, latency_measurements,
               reads, files_processed>>
vars == <<pipeVars, detVars, traceVars>>

(***************************************************************************)
(* Bounds of the model.                                                    *)
(***************************************************************************)
NumDetectors == 2       \* enabled measurements in config.yaml
NumHashes == 2          \* distinct signature.hash values detectors produce
MaxEvents == 3          \* events the detectors produce in one run
MaxRows == 2            \* rows the matcher's stream yields in one run
MaxTime == 1            \* clock ticks in one run
\* Slots of the broadcast channel. main.rs:18 asks for 1000; the model keeps
\* the ring's behaviour (overwrite the oldest, flag the lag) at a small size.
ChannelCapacity == 2
\* CorrelationConfig values (config.rs:101, 104) of the run.
MaxActiveSignatures == 1
SignatureTtlSeconds == 1

Detectors == 1..NumDetectors
Hashes == 1..NumHashes

Keys(map) == {e[1] : e \in map}
Entry(map, k) == CHOOSE e \in map : e[1] = k

(***************************************************************************)
(* dashmap::DashMap::insert / remove as main.rs uses them: each is one     *)
(* atomic step on the shard holding the key.                               *)
(***************************************************************************)
MapInsertKeepBoth(map, k, v) == map \cup {<<k, v>>}
MapInsert(map, k, v) == {e \in map : e[1] # k} \cup {<<k, v>>}

MapGetNoRemove(map, k) == map
MapRemove(map, k) == {e \in map : e[1] # k}

(***************************************************************************)
(* tokio::sync::broadcast as main.rs uses it, for the one receiver there   *)
(* is: send never waits; with no live receiver the value is dropped, with  *)
(* a full ring the oldest unreceived value is overwritten and the receiver *)
(* is marked as lagging.                                                   *)
(***************************************************************************)
CanSendBlocking(rx, q) == rx = "live" /\ Len(q) < ChannelCapacity
CanSend(rx, q) == TRUE

ChanAfterSend(rx, q, ev) ==
    IF rx # "live" THEN q
    ELSE IF Len(q) = ChannelCapacity THEN Append(Tail(q), ev)
    ELSE Append(q, ev)

LaggedAfterSend(rx, q, l) == IF rx = "live" /\ Len(q) = ChannelCapacity THEN TRUE ELSE l

\* The receiver has fallen behind by more than the ring holds: this send
\* overwrites an event it has not received, or an earlier one did (and the
\* drain task may since have ended on the Err(Lagged) it got).
FellBehind(rx, q, l, drain) ==
    \/ rx = "live" /\ (l \/ Len(q) = ChannelCapacity)
    \/ rx = "dropped" /\ drain = "done"

(***************************************************************************)
(* `timestamp - original_sig.timestamp` (main.rs:106). The right operand   *)
(* is a std::time::Instant and the result is used as a Duration, so this   *)
(* is Instant - Instant, which is duration_since: the Duration between the *)
(* two, or zero when the left one is the earlier (std since 1.60).         *)
(***************************************************************************)
LatencySigned(timestamp, origin) == timestamp - origin
Latency(timestamp, origin) == IF timestamp >= origin THEN timestamp - origin ELSE 0

RowsDone == Cardinality({i \in 1..Len(hist) : hist[i].op = "remove"})

PipeInit ==
    /\ mainPc = "spawn"
    /\ spawned = {}
    /\ nextId = 0
    /\ sig_rx = "none"
    /\ chan = <<>>
    /\ lagged = FALSE
    /\ matcherPc = "unspawned"
    /\ drainPc = "unspawned"
    /\ active_signatures = {}
    /\ observed = <<>>
    /\ now = 0
    /\ hist = <<>>
    /\ lateIds = {}

\* main.rs:21-26: spawn run_measurement for the next enabled measurement.
MainSpawn(d) ==
    /\ mainPc = "spawn"
    /\ d = Cardinality(spawned) + 1
    /\ spawned' = spawned \cup {d}
    /\ mainPc' = IF d = NumDetectors THEN "subscribe" ELSE "spawn"
    /\ UNCHANGED <<detVars, traceVars>>
    /\ UNCHANGED <<nextId, sig_rx, chan, lagged, matcherPc, drainPc,
                   active_signatures, observed, now, hist, lateIds>>

\* main.rs:29: sig_tx.subscribe(), then spawn run_signature_matcher with it;
\* main then awaits the metrics server (32).
MainSubscribe ==
    /\ mainPc = "subscribe"
    /\ sig_rx' = "live"
    /\ matcherPc' = "start"
    /\ mainPc' = "serving"
    /\ UNCHANGED <<detVars, traceVars>>
    /\ UNCHANGED <<spawned, nextId, chan, lagged, drainPc, active_signatures,
                   observed, now, hist, lateIds>>

\* main.rs:52-65: the detector's process_packet returns an event for a packet
\* and the task sends it: `let _ = sig_tx.send(sig_event)`, whose result is
\* ignored; the task then goes on to the next row.
Publish(d) ==
    /\ d \in spawned
    /\ nextId < MaxEvents
    /\ CanSend(sig_rx, chan)
    /\ \E h \in Hashes :
         chan' = ChanAfterSend(sig_rx, chan,
                    [id |-> nextId + 1, hash |-> h, timestamp |-> now])
    /\ lagged' = LaggedAfterSend(sig_rx, chan, lagged)
    /\ lateIds' = IF FellBehind(sig_rx, chan, lagged, drainPc)
                  THEN lateIds \cup {nextId + 1} ELSE lateIds
    /\ nextId' = nextId + 1
    /\ UNCHANGED <<detVars, traceVars>>
    /\ UNCHANGED <<mainPc, spawned, sig_rx, matcherPc, drainPc,
                   active_signatures, observed, now, hist>>

\* main.rs:76-84: create the map and spawn the drain task.
MatcherStart ==
    /\ matcherPc = "start"
    /\ matcherPc' = "rows"
    /\ drainPc' = "recv"
    /\ UNCHANGED <<detVars, traceVars>>
    /\ UNCHANGED <<mainPc, spawned, nextId, sig_rx, chan, lagged,
                   active_signatures, observed, now, hist, lateIds>>

\* main.rs:80: `while let Ok(sig) = sig_rx.recv().await`. recv answers
\* Err(Lagged) when events were overwritten, and the loop ends on any Err:
\* the task finishes and its receiver is dropped.
DrainLagged ==
    /\ drainPc = "recv"
    /\ lagged
    /\ drainPc' = "done"
    /\ sig_rx' = "dropped"
    /\ chan' = <<>>
    /\ lagged' = FALSE
    /\ UNCHANGED <<detVars, traceVars>>
    /\ UNCHANGED <<mainPc, spawned, nextId, matcherPc, active_signatures,
                   observed, now, hist, lateIds>>

\* main.rs:80-83: recv answers Ok(sig) and the task inserts it:
\* active_signatures.insert(sig.signature.hash, sig). With nothing to
\* receive the task waits.
DrainInsert ==
    /\ drainPc = "recv"
    /\ ~lagged
    /\ chan # <<>>
    /\ LET sig == Head(chan) IN
         /\ active_signatures' = MapInsert(active_signatures, sig.hash, sig)
         /\ hist' = Append(hist, [op |-> "insert", hash |-> sig.hash,
                                  id |-> sig.id, at |-> now])
    /\ chan' = Tail(chan)
    /\ UNCHANGED <<detVars, traceVars>>
    /\ UNCHANGED <<mainPc, spawned, nextId, sig_rx, lagged, matcherPc, drainPc,
                   observed, now, lateIds>>

\* main.rs:96-119: the next row of the observed traffic: its xxh3_64, the
\* removal of the entry for that hash, if any, and the latency observation.
\* Hash 0 stands for a payload no detector produced a signature for.
MatcherLookup ==
    /\ matcherPc = "rows"
    /\ RowsDone < MaxRows
    /\ \E hash \in Hashes \cup {0} :
         /\ IF hash \in Keys(active_signatures)
            THEN LET original_sig == Entry(active_signatures, hash)[2] IN
                 /\ \E timestamp \in {now, IF now > 0 THEN now - 1 ELSE now} :
                      observed' = Append(observed,
                         [id |-> original_sig.id,
                          timestamp |-> timestamp,
                          origin |-> original_sig.timestamp,
                          latency |-> Latency(timestamp, original_sig.timestamp)])
                 /\ hist' = Append(hist, [op |-> "remove", hash |-> hash,
                                          id |-> original_sig.id, at |-> now])
            ELSE /\ observed' = observed
                 /\ hist' = Append(hist, [op |-> "remove", hash |-> hash,
                                          id |-> 0, at |-> now])
         /\ active_signatures' = MapRemove(active_signatures, hash)
    /\ UNCHANGED <<detVars, traceVars>>
    /\ UNCHANGED <<mainPc, spawned, nextId, sig_rx, chan, lagged, matcherPc,
                   drainPc, now, lateIds>>

\* main.rs:96, 123: the observed-traffic stream ends and the matcher returns;
\* the drain task it spawned is detached and goes on.
MatcherEnd ==
    /\ matcherPc = "rows"
    /\ matcherPc' = "done"
    /\ UNCHANGED <<detVars, traceVars>>
    /\ UNCHANGED <<mainPc, spawned, nextId, sig_rx, chan, lagged, drainPc,
                   active_signatures, observed, now, hist, lateIds>>

Tick ==
    /\ now < MaxTime
    /\ now' = now + 1
    /\ UNCHANGED <<detVars, traceVars>>
    /\ UNCHANGED <<mainPc, spawned, nextId, sig_rx, chan, lagged, matcherPc,
                   drainPc, active_signatures, observed, hist, lateIds>>

(***************************************************************************)
(* signature_detector.rs. A payload is a sequence of bytes; the packet     *)
(* source is a cycle of StreamLen payloads.                                *)
(***************************************************************************)
MaxRate == 2            \* sampling_rate ranges over 1..MaxRate, and 5
StreamLen == 2          \* length of the cycle of payloads
MaxPackets == 60        \* process_packet calls in one run

WindowCap == 50         \* signature_detector.rs:34
ChunkMs == 20           \* signature_detector.rs:178
CrossingThreshold == 50 \* signature_detector.rs:149

Silence == <<0, 0, 0, 0>>       \* samples 0, 0
Loud == <<0, 1, 0, 255>>        \* samples 256, -256
OddTail == <<16, 0, 7>>         \* sample 16 and a byte left over
Empty == <<>>
Pulsed == <<1, 0, 0, 0, 1, 0, 0, 0>>    \* samples 1, 0, 1, 0
Payloads == {Silence, Loud, OddTail, Empty, Pulsed}

VadModes == {"Energy", "ZeroCrossing", "Spectral", "ML"}
\* energy_threshold in units of 1/32768: 200 stands for 200.0 / 32768.0.
EnergyThresholds == {200, 256}

SamplingRates == (1..MaxRate) \cup {5}

Configs ==
    [name : {"m1"},
     sampling_rate : SamplingRates,
     vad_mode : VadModes,
     energy_threshold : EnergyThresholds,
     header_offset : {2},
     id_patterns : {<<[pattern |-> "\\x10\\x00", id_type |-> "interval_id",
                       value_offset |-> 2, value_length |-> 1],
                      [pattern |-> "([^\\x00])", id_type |-> "call_id",
                       value_offset |-> 0, value_length |-> 0]>>}]

\* pattern.starts_with("\\x") (signature_detector.rs:64), on the patterns above.
IsBinaryPattern(pattern) == pattern = "\\x10\\x00"

Streams == [1..StreamLen -> Payloads]

\* The payload of the n-th process_packet call.
StreamAt(n) == stream[((n - 1) % Len(stream)) + 1]

Pow2(n) == 2 ^ n

\* i16::from_le_bytes([lo, hi])
I16(lo, hi) == LET u == lo + 256 * hi IN IF u >= 32768 THEN u - 65536 ELSE u

Abs(x) == IF x < 0 THEN -x ELSE x

\* The samples the loops `for i in (0..chunk.len()).step_by(2)` with
\* `if i + 1 < chunk.len()` read: a trailing odd byte is skipped.
Samples(chunk) == [k \in 1..(Len(chunk) \div 2) |-> I16(chunk[2 * k - 1], chunk[2 * k])]

\* The sum and the concatenation of a sequence, left to right. Each splits
\* its sequence in two halves, which keeps the evaluation shallow.
RECURSIVE SumSeq(_)
SumSeq(q) ==
    IF q = <<>> THEN 0
    ELSE IF Len(q) = 1 THEN q[1]
    ELSE LET h == Len(q) \div 2
         IN  SumSeq(SubSeq(q, 1, h)) + SumSeq(SubSeq(q, h + 1, Len(q)))

RECURSIVE Concat(_)
Concat(qs) ==
    IF qs = <<>> THEN <<>>
    ELSE IF Len(qs) = 1 THEN qs[1]
    ELSE LET h == Len(qs) \div 2
         IN  Concat(SubSeq(qs, 1, h)) \o Concat(SubSeq(qs, h + 1, Len(qs)))

\* All samples of the window, chunk after chunk.
WindowSamples(buffer) == Concat([k \in 1..Len(buffer) |-> Samples(buffer[k])])

\* signature_detector.rs:193-197: the search is a stub that finds nothing.
find_bytes(haystack, pattern) == <<>>

\* String::from_utf8_lossy, as code points. The payloads of the model hold
\* no byte of 128..255 other than 255, which no UTF-8 sequence contains: it
\* decodes to U+FFFD; a byte below 128 is its own code point.
Utf8Lossy(bytes) == [k \in 1..Len(bytes) |-> IF bytes[k] >= 128 THEN 65533 ELSE bytes[k]]

\* re.captures(&text) and cap.get(1) for the regex "([^\x00])": the
\* leftmost character other than U+0000, as <<>> or <<string>>.
RECURSIVE RegexCapture(_)
RegexCapture(text) ==
    IF text = <<>> THEN <<>>
    ELSE IF Head(text) # 0 THEN << <<Head(text)>> >>
    ELSE RegexCapture(Tail(text))

\* metadata.ids.insert(id_type, id) on a HashMap held as a set of
\* <<id_type, id>> pairs.
IdsInsert(ids, id_type, id) == {e \in ids : e[1] # id_type} \cup {<<id_type, id>>}

\* signature_detector.rs:62-88: the patterns in list order, ids the map so far.
\* id_start is `pos + value_offset as usize`: were the sum negative, the usize
\* addition would overflow; find_bytes returns no position, so the binary
\* branch computes nothing.
RECURSIVE ExtractFrom(_, _, _, _)
ExtractFrom(payload, envelope_start, patterns, ids) ==
    IF patterns = <<>> THEN ids
    ELSE LET pattern == Head(patterns)
             pos == find_bytes(payload, pattern.pattern)
             id_start == pos[1] + pattern.value_offset
             id_end == id_start + pattern.value_length
             text == Utf8Lossy(SubSeq(payload, envelope_start + 1, Len(payload)))
             cap == RegexCapture(text)
             after ==
                IF IsBinaryPattern(pattern.pattern)
                THEN IF pos # <<>> /\ id_end <= Len(payload) /\ id_start >= 0
                     THEN IdsInsert(ids, pattern.id_type,
                                    Utf8Lossy(SubSeq(payload, id_start + 1, id_end)))
                     ELSE ids
                ELSE IF cap # <<>>
                     THEN IdsInsert(ids, pattern.id_type, cap[1])
                     ELSE ids
         IN  ExtractFrom(payload, envelope_start, Tail(patterns), after)

\* signature_detector.rs:53-91
extract_metadata(cfg, payload) ==
    IF Len(payload) <= cfg.header_offset THEN {}
    ELSE ExtractFrom(payload, cfg.header_offset, cfg.id_patterns, {})

\* signature_detector.rs:103-127. With S the sum of the squared samples and
\* n their number, rms = sqrt(S / n) / 32768 exceeds t / 32768 exactly when
\* S > t * t * n; on the payloads above the f32 evaluation agrees (the sums
\* stay below 2^24 and no quotient comes within rounding of a threshold).
check_energy_threshold_inclusive(cfg, buffer) ==
    LET samples == WindowSamples(buffer)
        total_samples == Len(samples)
        energy == SumSeq([k \in 1..total_samples |-> samples[k] * samples[k]])
    IN  IF total_samples = 0 THEN FALSE
        ELSE energy >= cfg.energy_threshold * cfg.energy_threshold * total_samples
check_energy_threshold(cfg, buffer) ==
    LET samples == WindowSamples(buffer)
        total_samples == Len(samples)
        energy == SumSeq([k \in 1..total_samples |-> samples[k] * samples[k]])
    IN  IF total_samples = 0 THEN FALSE
        ELSE energy > cfg.energy_threshold * cfg.energy_threshold * total_samples

Signum(x) == IF x > 0 THEN 1 ELSE IF x < 0 THEN -1 ELSE 0

\* signature_detector.rs:129-150. The loop sets prev_sign to the sign of each
\* sample it reads, so before sample k it is the sign of sample k - 1 (and 0
\* before the first); crossings counts the samples at which prev_sign is not
\* 0 and differs from the sample's sign.
PrevSign(samples, k) == IF k = 1 THEN 0 ELSE Signum(samples[k - 1])

Crossings(samples) ==
    Cardinality({k \in 1..Len(samples) :
                    /\ PrevSign(samples, k) # 0
                    /\ Signum(samples[k]) # PrevSign(samples, k)})

check_zero_crossing_rate(buffer) ==
    Crossings(WindowSamples(buffer)) > CrossingThreshold

\* signature_detector.rs:152-161
check_spectral_features_accepting == TRUE
check_spectral_features == FALSE
run_ml_vad == FALSE

\* signature_detector.rs:93-101
is_signature_worthy(cfg, buffer) ==
    CASE cfg.vad_mode = "Energy" -> check_energy_threshold(cfg, buffer)
      [] cfg.vad_mode = "ZeroCrossing" -> check_zero_crossing_rate(buffer)
      [] cfg.vad_mode = "Spectral" -> check_spectral_features
      [] cfg.vad_mode = "ML" -> run_ml_vad

(***************************************************************************)
(* f32: the little-endian bytes of the value nearest p / q (ties to even), *)
(* for integers p >= 0, q >= 0. 0 / 0 is NaN, whose sign bit depends on    *)
(* the target; the bytes are those of x86-64.                              *)
(***************************************************************************)
\* The exponent e of p / q, 2^e <= p / q < 2^(e + 1): counted up from 0 when
\* p >= q, and otherwise the least e with p * 2^e >= q, negated.
RECURSIVE ExponentUp(_, _, _)
ExponentUp(p, q, e) == IF p >= 2 * q * Pow2(e) THEN ExponentUp(p, q, e + 1) ELSE e

RECURSIVE ExponentDown(_, _, _)
ExponentDown(p, q, e) == IF p * Pow2(e) < q THEN ExponentDown(p, q, e + 1) ELSE e

\* n / d rounded to the nearest integer, ties to even.
RoundHalfEven(n, d) ==
    LET f == n \div d
        r == n % d
    IN  IF 2 * r > d \/ (2 * r = d /\ f % 2 = 1) THEN f + 1 ELSE f

F32Bytes(p, q) ==
    IF q = 0 THEN <<0, 0, 192, 255>>
    ELSE IF p = 0 THEN <<0, 0, 0, 0>>
    ELSE LET down == ExponentDown(p, q, 0)
             e0 == IF p >= q THEN ExponentUp(p, q, 0) ELSE -down
             m0 == IF e0 <= 23 /\ e0 >= 0 THEN RoundHalfEven(p * Pow2(23 - e0), q)
                   ELSE IF e0 < 0 THEN RoundHalfEven(p * Pow2(23) * Pow2(-e0), q)
                   ELSE RoundHalfEven(p, q * Pow2(e0 - 23))
             e == IF m0 = Pow2(24) THEN e0 + 1 ELSE e0
             m == IF m0 = Pow2(24) THEN Pow2(23) ELSE m0
             biased == e + 127
             frac == m - Pow2(23)
         IN  << frac % 256,
                (frac \div 256) % 256,
                (biased % 2) * 128 + (frac \div 65536),
                biased \div 2 >>

\* signature_detector.rs:182-191: sum of |sample| over (len as f32 / 2.0),
\* as the bytes of the f32.
chunk_energy(chunk) ==
    LET samples == Samples(chunk)
        sum == SumSeq([k \in 1..Len(samples) |-> Abs(samples[k])])
    IN  F32Bytes(2 * sum, Len(chunk))

(***************************************************************************)
(* xxh3 (xxhash_rust): the digest of a byte sequence. The model takes the  *)
(* 64-bit digests of different inputs to differ.                           *)
(***************************************************************************)
Xxh3Digest(bytes) == <<"xxh3_64", Len(bytes), bytes>>

\* signature_detector.rs:163-180
generate_signature_by_samples(buffer) ==
    [hash |-> Xxh3Digest(Concat([k \in 1..Len(buffer) |-> chunk_energy(buffer[k])])),
     duration_ms |-> Len(WindowSamples(buffer)) * ChunkMs]
generate_signature_between_chunks(buffer) ==
    [hash |-> Xxh3Digest(Concat([k \in 1..Len(buffer) |-> chunk_energy(buffer[k])])),
     duration_ms |-> (Len(buffer) - 1) * ChunkMs]
generate_signature(buffer) ==
    [hash |-> Xxh3Digest(Concat([k \in 1..Len(buffer) |-> chunk_energy(buffer[k])])),
     duration_ms |-> Len(buffer) * ChunkMs]

\* main.rs:103: the matcher's key for a row.
MatcherKey(payload) == Xxh3Digest(payload)

\* signature_detector.rs:25
SampledBeforeIncrement(counter, rate) == (counter - 1) % rate = 0
Sampled(counter, rate) == counter % rate = 0

\* signature_detector.rs:33-36
PushKeepOldest(buffer, payload) ==
    IF Len(buffer) >= WindowCap THEN buffer ELSE Append(buffer, payload)
Push(buffer, payload) ==
    LET pushed == Append(buffer, payload)
    IN  IF Len(pushed) > WindowCap THEN Tail(pushed) ELSE pushed

\* signature_detector.rs:40-47: the event of a worthy moment. metadata is
\* what line 30 extracted from payload, the packet of this call.
NewEventOldestMetadata(cfg, buffer, metadata, payload, timestamp) ==
    [signature |-> generate_signature(buffer),
     metadata |-> extract_metadata(cfg, buffer[1]),
     timestamp |-> timestamp,
     measurement_name |-> cfg.name]
NewEvent(cfg, buffer, metadata, payload, timestamp) ==
    [signature |-> generate_signature(buffer),
     metadata |-> metadata,
     timestamp |-> timestamp,
     measurement_name |-> cfg.name]

DetIdle ==
    /\ config = CHOOSE c \in Configs : TRUE
    /\ stream = <<>>
    /\ packet_counter = 0
    /\ audio_buffer = <<>>
    /\ result = <<>>

\* SignatureDetector::new (signature_detector.rs:12-18) for a config, and the
\* stream it will be fed.
DetInit ==
    /\ config \in Configs
    /\ stream \in Streams
    /\ packet_counter = 0
    /\ audio_buffer = <<>>
    /\ result = <<>>

\* signature_detector.rs:21-51
process_packet ==
    /\ stream # <<>>
    /\ packet_counter < MaxPackets
    /\ LET payload == StreamAt(packet_counter + 1)
           counter == packet_counter + 1
           metadata == extract_metadata(config, payload)
           buffer == Push(audio_buffer, payload)
       IN  /\ packet_counter' = counter
           /\ IF ~Sampled(counter, config.sampling_rate)
              THEN /\ result' = <<>>
                   /\ audio_buffer' = audio_buffer
              ELSE /\ audio_buffer' = buffer
                   /\ result' =
                        IF is_signature_worthy(config, buffer)
                        THEN <<NewEvent(config, buffer, metadata, payload, now)>>
                        ELSE <<>>
    /\ UNCHANGED <<config, stream>>
    /\ UNCHANGED <<pipeVars, traceVars>>

(***************************************************************************)
(* bpftrace_reader.rs and ebpf_processor.rs: the two estimators that read  *)
(* trace records carrying an interval_id. A line of a trace file is the    *)
(* sequence of its fields, which is what line.split(',') yields.           *)
(***************************************************************************)
MaxTimestamp == 2       \* timestamps of trace records range over 0..MaxTimestamp
MaxLines == 3           \* lines written to the watched trace file in one run
MaxReads == 3           \* read_trace_file calls in one run
MaxFileLines == 2       \* lines of a file given to process_trace_file
MaxFiles == 2           \* process_trace_file calls in one run
\* timestamp_ns is a u64; the model keeps the wrap-around of its arithmetic
\* at this width.
TimestampBits == 4

SourcePort == 8000      \* bpftrace_reader.rs:84, ebpf_processor.rs:82
RelayPort == 8001       \* bpftrace_reader.rs:94, ebpf_processor.rs:92
OtherPort == 9000       \* any other port

U64Modulus == Pow2(TimestampBits)
U64Max == U64Modulus - 1
U16Max == 65535

\* The interval ids of the records: of the watched trace file, and of the
\* files given to process_trace_file.
BpftraceIds == {"a"}
EbpfIds == {"a", "b"}

\* The port pairs of a record: leaving the source, arriving at the relay,
\* and sent by the source straight to the relay.
PortPairs == {<<SourcePort, OtherPort>>, <<OtherPort, RelayPort>>,
              <<SourcePort, RelayPort>>}

\* timestamp,src_port,dst_port,interval_id,position
BpftraceLine(timestamp, ports, id) ==
    <<ToString(timestamp), ToString(ports[1]), ToString(ports[2]), id, "0">>

\* What bpftrace prints before the records.
BpftraceBanner == <<"Attaching 1 probe...">>

BpftraceLines ==
    {BpftraceLine(t, p, id) : t \in 0..MaxTimestamp, p \in PortPairs, id \in BpftraceIds}
        \cup {BpftraceBanner}

\* timestamp,src_ip,src_port,dst_ip,dst_port,interval_id,position,packet_len
EbpfLine(timestamp, ports, id) ==
    <<ToString(timestamp), "10.0.0.1", ToString(ports[1]), "10.0.0.2",
      ToString(ports[2]), id, "0", "172">>

EbpfHeader == <<"timestamp", "src_ip", "src_port", "dst_ip", "dst_port",
                "interval_id", "position", "packet_len">>

EbpfLines ==
    {EbpfLine(t, p, id) : t \in 0..MaxTimestamp, p \in PortPairs, id \in EbpfIds}
        \cup {EbpfHeader, BpftraceBanner}

EbpfFiles == UNION {[1..n -> EbpfLines] : n \in 0..MaxFileLines}

\* str::parse for an unsigned integer type with the given maximum, as an
\* Option: <<n>> for the decimal numeral of n, <<>> for any other text. The
\* numerals that occur in the model's files are those of Numbers.
Numbers == (0..U64Max) \cup {SourcePort, RelayPort, OtherPort, 172}

ParseUnsigned(text, max) ==
    LET ns == {n \in Numbers : ToString(n) = text /\ n <= max}
    IN  IF ns = {} THEN <<>> ELSE <<CHOOSE n \in ns : TRUE>>

\* bpftrace_reader.rs:66-80. position is a u32, which holds every numeral of
\* the model.
BpftraceReader_parse_trace_line(parts) ==
    IF Len(parts) < 5 THEN <<>>
    ELSE LET timestamp_ns == ParseUnsigned(parts[1], U64Max)
             src_port == ParseUnsigned(parts[2], U16Max)
             dst_port == ParseUnsigned(parts[3], U16Max)
             position == ParseUnsigned(parts[5], U64Max)
         IN  IF \/ timestamp_ns = <<>>
                \/ src_port = <<>>
                \/ dst_port = <<>>
                \/ position = <<>>
             THEN <<>>
             ELSE <<[timestamp_ns |-> timestamp_ns[1],
                     src_port |-> src_port[1],
                     dst_port |-> dst_port[1],
                     interval_id |-> parts[4],
                     position |-> position[1]]>>

\* map.get(k) of a HashMap<String, Vec<_>>, with the empty Vec for no entry.
VecOf(map, k) == IF k \in Keys(map) THEN Entry(map, k)[2] ELSE <<>>

\* `a - b` on u64 (bpftrace_reader.rs:96, ebpf_processor.rs:94): with
\* overflow checks (the default of a debug build) a result below zero
\* panics, <<>> here; without them (the default of a release build) it wraps.
SubU64(a, b, checks) ==
    IF a >= b THEN <<a - b>>
    ELSE IF checks THEN <<>>
    ELSE <<a - b + U64Modulus>>

\* bpftrace_reader.rs:82-110, on the reader's fields.
process_trace(reader, trace, checks) ==
    LET first ==
            IF /\ trace.src_port = SourcePort
               /\ trace.interval_id \notin Keys(reader.interval_first_seen)
            THEN MapInsert(reader.interval_first_seen,
                           trace.interval_id, trace.timestamp_ns)
            ELSE reader.interval_first_seen
        seen == [reader EXCEPT !.interval_first_seen = first]
    IN  IF trace.dst_port = RelayPort /\ trace.interval_id \in Keys(first)
        THEN LET first_seen == Entry(first, trace.interval_id)[2]
                 latency_ns == SubU64(trace.timestamp_ns, first_seen, checks)
             IN  IF latency_ns = <<>>
                 THEN [seen EXCEPT !.panicked = TRUE]
                 ELSE [seen EXCEPT !.interval_latencies =
                          MapInsert(reader.interval_latencies, trace.interval_id,
                                    Append(VecOf(reader.interval_latencies,
                                                 trace.interval_id),
                                           latency_ns[1]))]
        ELSE seen

\* bpftrace_reader.rs:52-64: every line of the file, from its first line; a
\* panic ends the call.
RECURSIVE read_trace_file(_, _, _)
read_trace_file(reader, lines, checks) ==
    IF lines = <<>> \/ reader.panicked THEN reader
    ELSE LET trace == BpftraceReader_parse_trace_line(Head(lines))
         IN  read_trace_file(IF trace = <<>> THEN reader
                             ELSE process_trace(reader, trace[1], checks),
                             Tail(lines), checks)

\* bpftrace_reader.rs:112-124: the map of the averages.
get_latency_stats(latencies) ==
    {<<e[1], SumSeq(e[2]) \div Len(e[2])>> : e \in {x \in latencies : x[2] # <<>>}}

\* BpftraceReader::new (bpftrace_reader.rs:24-30).
NewReader == [interval_first_seen |-> {}, interval_latencies |-> {}, panicked |-> FALSE]

Reader == [interval_first_seen |-> interval_first_seen,
           interval_latencies |-> interval_latencies,
           panicked |-> panicked]

\* ebpf_processor.rs:55-78
EbpfProcessor_parse_trace_line(parts) ==
    IF Len(parts) < 7 THEN <<>>
    ELSE IF parts[1] = "timestamp" THEN <<>>
    ELSE LET timestamp_ns == ParseUnsigned(parts[1], U64Max)
             src_port == ParseUnsigned(parts[3], U16Max)
             dst_port == ParseUnsigned(parts[5], U16Max)
             position == ParseUnsigned(parts[7], U64Max)
         IN  IF \/ timestamp_ns = <<>>
                \/ src_port = <<>>
                \/ dst_port = <<>>
                \/ position = <<>>
             THEN <<>>
             ELSE <<[timestamp_ns |-> timestamp_ns[1],
                     src_ip |-> parts[2],
                     src_port |-> src_port[1],
                     dst_ip |-> parts[4],
                     dst_port |-> dst_port[1],
                     interval_id |-> parts[6],
                     position |-> position[1]]>>

\* ebpf_processor.rs:80-110, on the processor's fields.
process_event(processor, event, checks) ==
    LET first ==
            IF /\ event.src_port = SourcePort
               /\ event.interval_id \notin Keys(processor.interval_first_seen)
            THEN MapInsert(processor.interval_first_seen,
                           event.interval_id, event.timestamp_ns)
            ELSE processor.interval_first_seen
        seen == [processor EXCEPT !.interval_first_seen = first]
    IN  IF event.dst_port = RelayPort /\ event.interval_id \in Keys(first)
        THEN LET source_time == Entry(first, event.interval_id)[2]
                 latency_ns == SubU64(event.timestamp_ns, source_time, checks)
             IN  IF latency_ns = <<>>
                 THEN [seen EXCEPT !.panicked = TRUE]
                 ELSE [seen EXCEPT !.latency_measurements =
                          Append(processor.latency_measurements,
                                 [interval_id |-> event.interval_id,
                                  source_timestamp_ns |-> source_time,
                                  relay_timestamp_ns |-> event.timestamp_ns,
                                  latency |-> latency_ns[1]])]
        ELSE seen

\* ebpf_processor.rs:41-53
RECURSIVE process_trace_file(_, _, _)
process_trace_file(processor, lines, checks) ==
    IF lines = <<>> \/ processor.panicked THEN processor
    ELSE LET event == EbpfProcessor_parse_trace_line(Head(lines))
         IN  process_trace_file(IF event = <<>> THEN processor
                                ELSE process_event(processor, event[1], checks),
                                Tail(lines), checks)

Processor == [interval_first_seen |-> ebpf_interval_first_seen,
              latency_measurements |-> latency_measurements,
              panicked |-> panicked]

\* Neither estimator has been constructed.
TraceIdle ==
    /\ overflow_checks = FALSE
    /\ panicked = FALSE
    /\ trace_file = <<>>
    /\ notifications = 0
    /\ readerPc = "new"
    /\ interval_first_seen = {}
    /\ interval_latencies = {}
    /\ ebpf_interval_first_seen = {}
    /\ latency_measurements = <<>>
    /\ reads = <<>>
    /\ files_processed = 0

\* BpftraceReader::new or EbpfProcessor::new, in a debug or a release build.
TraceInit ==
    /\ overflow_checks \in BOOLEAN
    /\ panicked = FALSE
    /\ trace_file = <<>>
    /\ notifications = 0
    /\ readerPc = "new"
    /\ interval_first_seen = {}
    /\ interval_latencies = {}
    /\ ebpf_interval_first_seen = {}
    /\ latency_measurements = <<>>
    /\ reads = <<>>
    /\ files_processed = 0

\* bpftrace appends a record to the trace file. Once the file is watched,
\* the debounced watcher of notify sends NoticeWrite at the write and Write
\* when the file has been quiet for the delay (100 ms), so the write puts
\* one event in rx, or two.
WriteLine(line) ==
    /\ Len(trace_file) < MaxLines
    /\ trace_file' = Append(trace_file, line)
    /\ \E events \in 1..2 :
         notifications' = IF readerPc = "new" THEN notifications
                          ELSE notifications + events
    /\ UNCHANGED <<pipeVars, detVars>>
    /\ UNCHANGED <<overflow_checks, panicked, readerPc, interval_first_seen,
                   interval_latencies, ebpf_interval_first_seen,
                   latency_measurements, reads, files_processed>>

\* bpftrace_reader.rs:34-36: start_monitoring sets up the watcher.
StartWatching ==
    /\ readerPc = "new"
    /\ readerPc' = "watching"
    /\ UNCHANGED <<pipeVars, detVars>>
    /\ UNCHANGED <<overflow_checks, panicked, trace_file, notifications,
                   interval_first_seen, interval_latencies,
                   ebpf_interval_first_seen, latency_measurements, reads,
                   files_processed>>

\* bpftrace_reader.rs:39: read the existing content.
InitialRead ==
    /\ readerPc = "watching"
    /\ readerPc' = "monitoring"
    /\ LET after == read_trace_file(Reader, trace_file, overflow_checks)
       IN  /\ interval_first_seen' = after.interval_first_seen
           /\ interval_latencies' = after.interval_latencies
           /\ panicked' = after.panicked
    /\ reads' = Append(reads, Len(trace_file))
    /\ UNCHANGED <<pipeVars, detVars>>
    /\ UNCHANGED <<overflow_checks, trace_file, notifications,
                   ebpf_interval_first_seen, latency_measurements,
                   files_processed>>

\* bpftrace_reader.rs:42-46: rx.recv() yields a watcher event and the file
\* is read again.
MonitorRecv ==
    /\ readerPc = "monitoring"
    /\ ~panicked
    /\ notifications > 0
    /\ Len(reads) < MaxReads
    /\ notifications' = notifications - 1
    /\ LET after == read_trace_file(Reader, trace_file, overflow_checks)
       IN  /\ interval_first_seen' = after.interval_first_seen
           /\ interval_latencies' = after.interval_latencies
           /\ panicked' = after.panicked
    /\ reads' = Append(reads, Len(trace_file))
    /\ UNCHANGED <<pipeVars, detVars>>
    /\ UNCHANGED <<overflow_checks, trace_file, readerPc,
                   ebpf_interval_first_seen, latency_measurements,
                   files_processed>>

InitBpftrace == PipeInit /\ DetIdle /\ TraceInit

NextBpftrace ==
    \/ \E line \in BpftraceLines : WriteLine(line)
    \/ StartWatching
    \/ InitialRead
    \/ MonitorRecv

SpecBpftrace == InitBpftrace /\ [][NextBpftrace]_vars

\* EbpfProcessor::process_trace_file (ebpf_processor.rs:41-53) on a file.
ProcessTraceFile(file) ==
    /\ ~panicked
    /\ files_processed < MaxFiles
    /\ files_processed' = files_processed + 1
    /\ LET after == process_trace_file(Processor, file, overflow_checks)
       IN  /\ ebpf_interval_first_seen' = after.interval_first_seen
           /\ latency_measurements' = after.latency_measurements
           /\ panicked' = after.panicked
    /\ UNCHANGED <<pipeVars, detVars>>
    /\ UNCHANGED <<overflow_checks, trace_file, notifications, readerPc,
                   interval_first_seen, interval_latencies, reads>>

InitEbpf == PipeInit /\ DetIdle /\ TraceInit

NextEbpf == \E file \in EbpfFiles : ProcessTraceFile(file)

SpecEbpf == InitEbpf /\ [][NextEbpf]_vars

InitDetector == PipeInit /\ DetInit /\ TraceIdle

NextDetector == process_packet

SpecDetector == InitDetector /\ [][NextDetector]_vars

Init == PipeInit /\ DetIdle /\ TraceIdle

\* The pipeline with the clock standing still.
Next ==
    \/ \E d \in Detectors : MainSpawn(d)
    \/ MainSubscribe
    \/ \E d \in Detectors : Publish(d)
    \/ MatcherStart
    \/ DrainLagged
    \/ DrainInsert
    \/ MatcherLookup
    \/ MatcherEnd

Spec == Init /\ [][Next]_vars

\* The pipeline with time passing.
NextTimed == Next \/ Tick

SpecTimed == Init /\ [][NextTimed]_vars

\* The drain task is scheduled whenever it can take a step (a spawned tokio
\* task that is ready to run is polled).
SpecFair ==
    /\ Init
    /\ [][Next]_vars
    /\ WF_vars(DrainInsert)
    /\ WF_vars(DrainLagged)

(***************************************************************************)
(* The matcher's loop on its own: main is serving, the detectors have sent *)
(* their events at times that do not decrease, and the drain task has      *)
(* inserted each as it was sent. The matcher then takes its rows while     *)
(* time passes.                                                            *)
(***************************************************************************)
RECURSIVE InsertAll(_, _)
InsertAll(map, events) ==
    IF events = <<>> THEN map
    ELSE InsertAll(MapInsert(map, Head(events).hash, Head(events)), Tail(events))

InitMatching ==
    /\ DetIdle
    /\ TraceIdle
    /\ mainPc = "serving"
    /\ spawned = Detectors
    /\ sig_rx = "live"
    /\ chan = <<>>
    /\ lagged = FALSE
    /\ matcherPc = "rows"
    /\ drainPc = "recv"
    /\ observed = <<>>
    /\ lateIds = {}
    /\ \E n \in 0..MaxEvents :
       \E hashes \in [1..n -> Hashes] :
       \E times \in [1..n -> 0..MaxTime] :
         /\ \A i \in 1..n : \A j \in 1..n : i <= j => times[i] <= times[j]
         /\ nextId = n
         /\ now = IF n = 0 THEN 0 ELSE times[n]
         /\ hist = [i \in 1..n |-> [op |-> "insert", hash |-> hashes[i],
                                     id |-> i, at |-> times[i]]]
         /\ active_signatures =
              InsertAll({}, [i \in 1..n |-> [id |-> i, hash |-> hashes[i],
                                             timestamp |-> times[i]]])

NextMatching ==
    \/ MatcherLookup
    \/ MatcherEnd
    \/ Tick

SpecMatching == InitMatching /\ [][NextMatching]_vars

(***************************************************************************)
(* Properties of the pipeline.                                             *)
(***************************************************************************)
Inserts == {i \in 1..Len(hist) : hist[i].op = "insert"}
Removes == {i \in 1..Len(hist) : hist[i].op = "remove"}
InsertsOf(h) == {i \in Inserts : hist[i].hash = h}
RemovesOf(h) == {i \in Removes : hist[i].hash = h}
StoredIds == {e[2].id : e \in active_signatures}

\* C1: the number of entries of active_signatures never exceeds
\* max_active_signatures.
C1_StoreSizeBounded == Cardinality(active_signatures) <= MaxActiveSignatures

\* C2: of two lookups for one hash with no insert of that hash between them
\* the second gets no match, and the first gets the entry when the hash was
\* in the store; after a lookup the store holds no entry for the hash until
\* its next insert; no event is matched twice.
C2_AtMostOnceMatch ==
    /\ \A i \in Removes : \A j \in Removes :
         (/\ i < j
          /\ hist[i].hash = hist[j].hash
          /\ \A k \in InsertsOf(hist[i].hash) : ~(i < k /\ k < j))
         => /\ hist[j].id = 0
            /\ (\E k \in InsertsOf(hist[i].hash) :
                   k < i /\ \A m \in RemovesOf(hist[i].hash) : ~(k < m /\ m < i))
               => hist[i].id # 0
    /\ \A h \in Hashes :
         (RemovesOf(h) # {} /\ \A k \in InsertsOf(h) : \E m \in RemovesOf(h) : k < m)
         => h \notin Keys(active_signatures)
    /\ \A i \in 1..Len(observed) : \A j \in 1..Len(observed) :
         i # j => observed[i].id # observed[j].id

\* Two lookups for a hash that was in the store, an insert of another hash in
\* between: the first got the entry, the second nothing.
C2_Witness ==
    \E i \in Removes : \E j \in Removes : \E k \in Inserts :
        /\ i < k /\ k < j
        /\ hist[i].hash = hist[j].hash
        /\ hist[k].hash # hist[i].hash
        /\ hist[i].id # 0
        /\ hist[j].id = 0

\* C3: after max_active_signatures + 1 inserts with distinct hashes (and no
\* lookup) the store holds exactly max_active_signatures entries, and the one
\* missing is the first inserted.
C3_EvictsOldest ==
    (/\ Len(hist) = MaxActiveSignatures + 1
     /\ Removes = {}
     /\ \A i \in Inserts : \A j \in Inserts : i # j => hist[i].hash # hist[j].hash)
    => /\ Cardinality(active_signatures) = MaxActiveSignatures
       /\ hist[1].hash \notin Keys(active_signatures)
       /\ \A i \in 2..Len(hist) : hist[i].hash \in Keys(active_signatures)

\* C4: an entry inserted at time T and never matched is gone once an
\* operation on the store took place at a time >= T + signature_ttl_seconds,
\* and is in the store at every time before T + signature_ttl_seconds.
C4_TtlExpiry ==
    \A i \in Inserts :
        LET unmatched == \A j \in Removes : hist[j].id # hist[i].id
            replaced == \E k \in InsertsOf(hist[i].hash) : i < k
        IN  /\ (unmatched /\ \E j \in 1..Len(hist) :
                                j > i /\ hist[j].at >= hist[i].at + SignatureTtlSeconds)
               => hist[i].id \notin StoredIds
            /\ (unmatched /\ ~replaced /\ now < hist[i].at + SignatureTtlSeconds)
               => hist[i].id \in StoredIds

\* C5: the store holds at most one entry per hash, each keyed by its event's
\* hash; the entry of a hash is the event of the latest insert for it, and a
\* match returns the event of the latest insert before it.
C5_OverwriteOnInsert ==
    /\ \A e1 \in active_signatures : \A e2 \in active_signatures :
         e1[1] = e2[1] => e1 = e2
    /\ \A e \in active_signatures :
         /\ e[1] = e[2].hash
         /\ \E i \in InsertsOf(e[1]) :
              /\ hist[i].id = e[2].id
              /\ \A k \in InsertsOf(e[1]) : k <= i
    /\ \A j \in Removes :
         hist[j].id # 0 =>
            \E i \in InsertsOf(hist[j].hash) :
              /\ i < j
              /\ hist[i].id = hist[j].id
              /\ \A k \in InsertsOf(hist[j].hash) : k < j => k <= i

\* Two inserts for one hash, then a lookup that returned the second event,
\* then a lookup that found nothing.
C5_Witness ==
    \E i \in Inserts : \E k \in Inserts : \E j \in Removes : \E m \in Removes :
        /\ i < k /\ k < j /\ j < m
        /\ hist[i].hash = hist[k].hash
        /\ hist[j].hash = hist[k].hash
        /\ hist[m].hash = hist[k].hash
        /\ hist[j].id = hist[k].id
        /\ hist[m].id = 0
        /\ \A n \in Removes : n < j => hist[n].hash # hist[k].hash

Inserted(id) == \E i \in Inserts : hist[i].id = id

\* C8: every event sent once the receiver had fallen behind by more than the
\* channel holds is eventually inserted into the store.
C8_LaggedSubscriberKeepsReceiving ==
    \A id \in 1..MaxEvents : [](id \in lateIds => <>Inserted(id))

Skewed(i) == observed[i].timestamp < observed[i].origin

\* C11: every reported latency is >= 0: it is the difference of the row's
\* timestamp and the event's origin timestamp, and zero when the row's
\* timestamp is the earlier one; after such a match the matcher is still in
\* its loop (or its stream has ended) and takes the next row.
C11_LatencyClamped ==
    /\ \A i \in 1..Len(observed) :
         /\ observed[i].latency >= 0
         /\ Skewed(i) => observed[i].latency = 0
         /\ ~Skewed(i) => observed[i].latency = observed[i].timestamp - observed[i].origin
    /\ (\E i \in 1..Len(observed) : Skewed(i)) =>
         /\ matcherPc \in {"rows", "done"}
         /\ (matcherPc = "rows" /\ RowsDone < MaxRows) => ENABLED MatcherLookup

\* A match whose row is older than the event's origin was reported with
\* latency zero, and the matcher took a further row after it.
C11_Witness ==
    /\ Len(observed) >= 1
    /\ Skewed(1)
    /\ observed[1].latency = 0
    /\ \E j \in Removes : \E i \in Removes :
         i < j /\ hist[i].id = observed[1].id

\* C18: once the matcher task has ended, its drain task has stopped and its
\* subscription is released: no step inserts an event into the store and no
\* sent event is queued for its receiver.
C18_CancellationWithoutLeaks ==
    [][matcherPc = "done" =>
          /\ active_signatures' = active_signatures
          /\ Len(chan') <= Len(chan)]_vars

\* C21: an event a detector publishes before main has created the matcher's
\* subscription is not lost: until the subscription exists, every event
\* published so far is held in the channel, from where the drain task can
\* insert it into the store once it runs.
C21_PublishedBeforeSubscriptionKept ==
    sig_rx = "none" =>
        \A id \in 1..nextId : \E i \in 1..Len(chan) : chan[i].id = id

(***************************************************************************)
(* Properties of the estimators.                                           *)
(***************************************************************************)
\* What one read_trace_file call by a new reader makes of the file.
ReadOnce == read_trace_file(NewReader, trace_file, overflow_checks)

\* The last read_trace_file call saw the file as it is now.
FileRead == reads # <<>> /\ reads[Len(reads)] = Len(trace_file)

\* C22: re-reads of the trace file are idempotent: once the reader has read
\* the file as it is now, interval_latencies holds exactly the samples one
\* read of the file yields (one per relay-arrival line), however many times
\* start_monitoring has re-read the file, and get_latency_stats gives the
\* averages of those samples.
C22_RereadIdempotent ==
    (FileRead /\ ~panicked) =>
        /\ interval_latencies = ReadOnce.interval_latencies
        /\ get_latency_stats(interval_latencies)
              = get_latency_stats(ReadOnce.interval_latencies)

\* C23: for any order of trace events, the first-seen source timestamp of
\* an interval_id is the one every measurement of that id was taken against
\* (it is set once and not overwritten), and every recorded latency is the
\* relay timestamp minus that timestamp with no unsigned underflow: no
\* event makes the estimator panic, and no latency is a wrapped difference.
C23_LatencyWithoutUnderflow ==
    /\ ~panicked
    /\ \A i \in 1..Len(latency_measurements) :
         LET m == latency_measurements[i] IN
         /\ m.interval_id \in Keys(ebpf_interval_first_seen)
         /\ m.source_timestamp_ns
               = Entry(ebpf_interval_first_seen, m.interval_id)[2]
         /\ m.relay_timestamp_ns >= m.source_timestamp_ns
         /\ m.latency = m.relay_timestamp_ns - m.source_timestamp_ns

(***************************************************************************)
(* Properties of the detector.                                             *)
(***************************************************************************)
\* C6: every process_packet call adds one to the counter (from 0, so the
\* first call sees 1); when the new counter is a multiple of sampling_rate
\* the payload is buffered and the gate decides the result, and otherwise the
\* call returns no event and leaves the window as it was.
C6_Sampling ==
    [][packet_counter' # packet_counter =>
         /\ packet_counter' = packet_counter + 1
         /\ IF packet_counter' % config.sampling_rate = 0
            THEN /\ Len(audio_buffer') >= 1
                 /\ audio_buffer'[Len(audio_buffer')] = StreamAt(packet_counter')
                 /\ (result' # <<>>) = is_signature_worthy(config, audio_buffer')
            ELSE /\ result' = <<>>
                 /\ audio_buffer' = audio_buffer]_vars

\* A call that was not sampled, between two sampled ones.
C6_Witness ==
    /\ config.sampling_rate = 2
    /\ packet_counter = 3
    /\ Len(audio_buffer) = 1
    /\ audio_buffer[1] = StreamAt(2)
    /\ result = <<>>

\* The sampled payloads so far, by the position of their call in the stream.
SampledCount == packet_counter \div config.sampling_rate
ExpectedWindow ==
    LET k == SampledCount
        n == IF k < 50 THEN k ELSE 50
    IN  [i \in 1..n |-> StreamAt((k - n + i) * config.sampling_rate)]

\* C7: the window holds at most 50 chunks: the latest min(k, 50) sampled
\* payloads in arrival order, k the number of sampled packets so far,
\* whatever the gate answered.
C7_SlidingWindow ==
    /\ Len(audio_buffer) <= 50
    /\ audio_buffer = ExpectedWindow

\* More than 50 packets were sampled, the window is full of payloads that
\* differ, and the gate declined the last one.
C7_Witness ==
    /\ SampledCount > 50
    /\ Len(audio_buffer) = 50
    /\ audio_buffer[1] # audio_buffer[2]
    /\ result = <<>>
    /\ config.vad_mode = "Energy"

\* C10: the matcher's lookup key for the traffic the detector saw equals the
\* hash of the event the detector emitted for it: the key of some row of the
\* window is the event's signature.hash.
C10_SameFingerprint ==
    result # <<>> =>
        \E k \in 1..Len(audio_buffer) :
            MatcherKey(audio_buffer[k]) = result[1].signature.hash

\* The call that just returned was a sampled one.
LastCallSampled == packet_counter > 0 /\ packet_counter % config.sampling_rate = 0

\* The normalized RMS of the window against energy_threshold, both in units
\* of 1/32768: rms >= t exactly when the sum of squares is >= t * t * n.
RmsAtOrAbove(buffer, t) ==
    LET samples == WindowSamples(buffer)
        n == Len(samples)
    IN  SumSeq([k \in 1..n |-> samples[k] * samples[k]]) >= t * t * n

\* The normalized RMS of the window is above energy_threshold.
RmsAbove(buffer, t) ==
    LET samples == WindowSamples(buffer)
        n == Len(samples)
    IN  n > 0 /\ SumSeq([k \in 1..n |-> samples[k] * samples[k]]) > t * t * n

\* C12, as claimed: with vad_mode Energy a sampled call returns an event
\* exactly when the window has a complete sample and its normalized RMS is at
\* or above energy_threshold (the boundary included).
C12_EnergyBoundaryInclusive ==
    (config.vad_mode = "Energy" /\ LastCallSampled) =>
        ((result # <<>>) =
            (/\ WindowSamples(audio_buffer) # <<>>
             /\ RmsAtOrAbove(audio_buffer, config.energy_threshold)))

\* C12, amended: with vad_mode Energy a sampled call returns an event exactly
\* when the window has a complete sample and its normalized RMS is strictly
\* above energy_threshold; at the threshold, below it, or with no complete
\* sample it returns none.
C12_EnergyBoundaryExclusive ==
    (config.vad_mode = "Energy" /\ LastCallSampled) =>
        ((result # <<>>) = RmsAbove(audio_buffer, config.energy_threshold))

\* A sampled call whose window RMS is exactly the threshold returned no event.
C12_Witness ==
    /\ config.vad_mode = "Energy"
    /\ LastCallSampled
    /\ WindowSamples(audio_buffer) # <<>>
    /\ RmsAtOrAbove(audio_buffer, config.energy_threshold)
    /\ ~RmsAbove(audio_buffer, config.energy_threshold)
    /\ result = <<>>

\* The sign changes between consecutive non-zero samples: a zero sample has
\* no sign and the sign before it is carried across it. With s the non-zero
\* samples in order, it is the number of k with s[k] and s[k + 1] of opposite
\* signs.
NonZeroIndexes(samples) == {k \in 1..Len(samples) : samples[k] # 0}

SignChanges(samples) ==
    LET nz == NonZeroIndexes(samples)
    IN  Cardinality({k \in nz :
            \E m \in nz :
                /\ k < m
                /\ \A j \in nz : ~(k < j /\ j < m)
                /\ Signum(samples[k]) # Signum(samples[m])})

\* C13: with vad_mode ZeroCrossing a sampled call returns an event exactly
\* when the number of sign changes between consecutive non-zero samples of
\* the window (zero samples carrying the previous sign forward) exceeds 50.
C13_ZeroCrossingCarryForward ==
    (config.vad_mode = "ZeroCrossing" /\ LastCallSampled) =>
        ((result # <<>>) = (SignChanges(WindowSamples(audio_buffer)) > 50))

\* C14: a process_packet call returns an event exactly when the packet was
\* sampled and the gate finds the window, the packet just pushed included,
\* worthy; the event carries the metadata of that packet and the name of the
\* detector's config.
C14_EventIffSampledAndWorthy ==
    packet_counter > 0 =>
        /\ (result # <<>>) =
              (LastCallSampled /\ is_signature_worthy(config, audio_buffer))
        /\ result # <<>> =>
              /\ audio_buffer[Len(audio_buffer)] = StreamAt(packet_counter)
              /\ result[1].metadata = extract_metadata(config, StreamAt(packet_counter))
              /\ result[1].measurement_name = config.name

\* An event with the metadata of its own packet, while the window still
\* holds an earlier packet with other metadata.
C14_Witness ==
    /\ result # <<>>
    /\ result[1].metadata # {}
    /\ Len(audio_buffer) >= 2
    /\ extract_metadata(config, audio_buffer[1]) # result[1].metadata
    /\ extract_metadata(config, audio_buffer[1]) # {}

\* The scenario of a fresh Energy detector with sampling_rate 5 over its
\* first 10 packets: only packets 5 and 10 enter the window and can emit;
\* packet 5 emits nothing when its window is not above the threshold, and
\* packet 10 emits an event of the given duration when its window is.
Scenario(duration_ms) ==
    (/\ config.sampling_rate = 5
     /\ config.vad_mode = "Energy"
     /\ packet_counter \in 1..10) =>
        /\ audio_buffer = CASE packet_counter < 5 -> <<>>
                             [] packet_counter \in 5..9 -> <<StreamAt(5)>>
                             [] packet_counter = 10 -> <<StreamAt(5), StreamAt(10)>>
        /\ packet_counter \notin {5, 10} => result = <<>>
        /\ (packet_counter = 5 /\ ~RmsAbove(<<StreamAt(5)>>, config.energy_threshold))
              => result = <<>>
        /\ (packet_counter = 10
               /\ RmsAbove(<<StreamAt(5), StreamAt(10)>>, config.energy_threshold))
              => /\ result # <<>>
                 /\ result[1].signature.duration_ms = duration_ms

\* C15, as claimed: in the scenario the event emitted at packet 10 has
\* duration_ms = 200.
C15_EndToEnd200 == Scenario(200)

\* C15, amended: in the scenario the event emitted at packet 10 has
\* duration_ms = 40, the window holding the two sampled packets 5 and 10.
C15_EndToEnd40 == Scenario(40)

\* Packet 5 was declined with its window below the threshold and packet 10
\* emitted with its window above it.
C15_Witness ==
    /\ config.sampling_rate = 5
    /\ config.vad_mode = "Energy"
    /\ packet_counter = 10
    /\ StreamAt(5) # Empty
    /\ ~RmsAbove(<<StreamAt(5)>>, config.energy_threshold)
    /\ result # <<>>
    /\ result[1].signature.duration_ms = 40

\* The bytes a binary pattern of the configs denotes.
PatternBytes(pattern) == IF pattern = "\\x10\\x00" THEN <<16, 0>> ELSE <<>>

\* The index (from 0) of the first occurrence of needle in haystack, or -1.
FirstOccurrence(haystack, needle) ==
    LET at == {p \in 0..(Len(haystack) - Len(needle)) :
                  SubSeq(haystack, p + 1, p + Len(needle)) = needle}
    IN  IF at = {} THEN -1 ELSE CHOOSE p \in at : \A q \in at : p <= q

\* C16: for a binary pattern whose bytes first occur in the packet at index
\* p, with p + value_offset >= 0 and p + value_offset + value_length within
\* the payload, the metadata of the packet's event maps the pattern's id_type
\* to payload[p + value_offset .. p + value_offset + value_length].
C16_BinaryPatternExtraction ==
    result # <<>> =>
        LET payload == StreamAt(packet_counter) IN
        \A k \in 1..Len(config.id_patterns) :
            LET pattern == config.id_patterns[k]
                p == FirstOccurrence(payload, PatternBytes(pattern.pattern))
                id_start == p + pattern.value_offset
                id_end == id_start + pattern.value_length
            IN  (/\ IsBinaryPattern(pattern.pattern)
                 /\ Len(payload) > config.header_offset
                 /\ p >= 0
                 /\ id_start >= 0
                 /\ id_end <= Len(payload))
                => <<pattern.id_type, Utf8Lossy(SubSeq(payload, id_start + 1, id_end))>>
                      \in result[1].metadata

\* The bytes the k-th chunk of the window contributed to the fingerprint of
\* the emitted event: its energy as an f32.
EnergyBytesOf(event, k) == SubSeq(event.signature.hash[3], 4 * k - 3, 4 * k)

ZeroF32 == <<0, 0, 0, 0>>

\* C17: whatever the payload, the call returns, with no event or with one; a
\* payload no longer than header_offset gives empty metadata,
\* an id pattern whose value is out of range gives no value, and a payload
\* with no complete sample (empty, or a single byte) enters the emitted
\* fingerprint with zero energy.
C17_NeverFailsOnPayload ==
    /\ result = <<>> \/ Len(result) = 1
    /\ result # <<>> =>
        LET payload == StreamAt(packet_counter) IN
        /\ Len(payload) <= config.header_offset => result[1].metadata = {}
        /\ \A e \in result[1].metadata : \E k \in 1..Len(config.id_patterns) :
               e[1] = config.id_patterns[k].id_type
        /\ \A k \in 1..Len(audio_buffer) :
               Samples(audio_buffer[k]) = <<>>
               => EnergyBytesOf(result[1], k) = ZeroF32

\* C19: every emitted event has duration_ms = 20 * (the number of chunks in
\* the window when it was emitted), one of 20, 40, ..., 1000, whatever the
\* sizes of the payloads and the number of unsampled packets in between.
C19_DurationFromWindowLength ==
    result # <<>> =>
        /\ result[1].signature.duration_ms = 20 * Len(audio_buffer)
        /\ \E n \in 1..50 : result[1].signature.duration_ms = 20 * n

\* An event of a window of chunks of different sizes, taken from every fifth
\* packet.
C19_Witness ==
    /\ result # <<>>
    /\ config.sampling_rate = 5
    /\ packet_counter >= 10
    /\ result[1].signature.duration_ms = 20 * (packet_counter \div 5)
    /\ \E i \in 1..Len(audio_buffer) : Len(audio_buffer[i]) # Len(audio_buffer[1])

\* C20: with vad_mode Spectral or ML every process_packet call advances the
\* counter by one and returns no event, and the window is the latest (at most
\* 50) sampled payloads all the same, each sampled payload pushed at its back.
C20_SpectralAndMlNeverEmit ==
    [][config.vad_mode \in {"Spectral", "ML"} =>
          /\ packet_counter' = packet_counter + 1
          /\ result' = <<>>
          /\ Len(audio_buffer') <= 50
          /\ audio_buffer' = ExpectedWindow'
          /\ packet_counter' % config.sampling_rate = 0 =>
                audio_buffer'[Len(audio_buffer')] = StreamAt(packet_counter')]_vars

\* A Spectral or ML detector whose window is full, has dropped its oldest
\* chunks and is loud enough for the Energy gate, and which returned no event
\* for the packet it just pushed.
C20_Witness ==
    /\ config.vad_mode \in {"Spectral", "ML"}
    /\ SampledCount > 50
    /\ LastCallSampled
    /\ Len(audio_buffer) = 50
    /\ RmsAbove(audio_buffer, config.energy_threshold)
    /\ result = <<>>

====
